---- MODULE Spec2Model ----
(***************************************************************************)
(* The activity-signup backend of src/app.py over the three tables of      *)
(* src/db.py (Activity, User, Participation).                               *)
(*                                                                         *)
(* Spec      every request handler runs to completion before the next      *)
(*           request starts (requests executed one at a time).             *)
(* SpecConc  the handlers run on a pool of workers; every database         *)
(*           statement of signup_for_activity is one atomic step and the   *)
(*           steps of different workers interleave; unregister runs as a   *)
(*           whole between two such steps.                                 *)
(***************************************************************************)
EXTENDS Integers, Sequences, FiniteSets, Bags, TLC

VARIABLES
    activities,      \* rows of table Activity
    users,           \* rows of table User
    participations,  \* rows of table Participation (a bag: see Participation)
    started,         \* module start-up of app.py has run in this process
    last,            \* the latest operation run to completion and its answer
    trip,            \* how many steps of signup(A,e); unregister(A,e); signup(A,e)
                     \* the latest requests make up (history of the client)
    workers          \* per worker: position in signup_for_activity and its locals

vars == <<activities, users, participations, started, last, trip, workers>>

-----------------------------------------------------------------------------
(* Bounds of the model *)

NumEmails == 2      \* distinct emails the requests use
MaxCapacity == 2    \* largest max_participants of a row found in an old database

EmailPool == <<"a@x.com", "b@x.com", "c@x.com", "d@x.com", "e@x.com">>
Emails == {EmailPool[i] : i \in 1..NumEmails}

\* names the requests ask for: two that are seeded, one that no store holds
RequestNames == {"Chess Club", "Math Club", "Knitting Club"}

\* SpecConc: two requests in flight at once, both for the seeded activity that
\* every started store holds, from two emails
Workers == {"w1", "w2"}
RaceNames == {"Chess Club"}
RaceEmails == {EmailPool[1], EmailPool[2]}

\* Python's None; no row has id 0
None == [id |-> 0]

-----------------------------------------------------------------------------
(* db.py: tables *)

Activity(id, name, description, schedule, max_participants) ==
    [id |-> id, name |-> name, description |-> description,
     schedule |-> schedule, max_participants |-> max_participants]

User(id, email) == [id |-> id, email |-> email]

\* No code of the repository reads Participation.id: a row is found by its
\* (activity_id, user_id) and deleted as the object found.  The table is the
\* bag of its rows without the id, two copies being two rows that differ in
\* id only.
Participation(activity_id, user_id) ==
    [activity_id |-> activity_id, user_id |-> user_id]

\* The primary key the engine gives an inserted row: an id no row of the table
\* holds.  The handlers only ever compare ids of rows for equality, so the
\* least free id stands for any id the engine may pick.
NewId(rows) ==
    CHOOSE i \in 1..(Cardinality(rows) + 1) :
        /\ \A r \in rows : r.id # i
        /\ \A j \in 1..(i - 1) : \E r \in rows : r.id = j

\* result.first() of a SELECT without ORDER BY on the SQLite file of db.py:
\* None when no row matches, otherwise the first matching row of the table
\* scan, which walks the table by primary key.
First(rows) ==
    IF rows = {} THEN None
    ELSE CHOOSE r \in rows : \A q \in rows : r.id <= q.id

-----------------------------------------------------------------------------
(* db.py: seed_initial_activities_if_needed *)

initial == <<
    [name |-> "Chess Club",
     description |-> "Learn strategies and compete in chess tournaments",
     schedule |-> "Fridays, 3:30 PM - 5:00 PM", max_participants |-> 12],
    [name |-> "Programming Class",
     description |-> "Learn programming fundamentals and build software projects",
     schedule |-> "Tuesdays and Thursdays, 3:30 PM - 4:30 PM", max_participants |-> 20],
    [name |-> "Gym Class",
     description |-> "Physical education and sports activities",
     schedule |-> "Mondays, Wednesdays, Fridays, 2:00 PM - 3:00 PM", max_participants |-> 30],
    [name |-> "Soccer Team",
     description |-> "Join the school soccer team and compete in matches",
     schedule |-> "Tuesdays and Thursdays, 4:00 PM - 5:30 PM", max_participants |-> 22],
    [name |-> "Basketball Team",
     description |-> "Practice and play basketball with the school team",
     schedule |-> "Wednesdays and Fridays, 3:30 PM - 5:00 PM", max_participants |-> 15],
    [name |-> "Art Club",
     description |-> "Explore your creativity through painting and drawing",
     schedule |-> "Thursdays, 3:30 PM - 5:00 PM", max_participants |-> 15],
    [name |-> "Drama Club",
     description |-> "Act, direct, and produce plays and performances",
     schedule |-> "Mondays and Wednesdays, 4:00 PM - 5:30 PM", max_participants |-> 20],
    [name |-> "Math Club",
     description |-> "Solve challenging problems and participate in math competitions",
     schedule |-> "Tuesdays, 3:30 PM - 4:30 PM", max_participants |-> 10],
    [name |-> "Debate Team",
     description |-> "Develop public speaking and argumentation skills",
     schedule |-> "Fridays, 4:00 PM - 5:30 PM", max_participants |-> 12] >>

RECURSIVE AddAll(_, _, _)
\* for a in initial: session.add(Activity(**a)); the rows get their ids in order
AddAll(rows, todo, k) ==
    IF k > Len(todo) THEN rows
    ELSE AddAll(rows \cup {Activity(NewId(rows), todo[k].name, todo[k].description,
                                    todo[k].schedule, todo[k].max_participants)},
                todo, k + 1)

\* mutant: the seed rows are added without looking whether the table is empty
seed_initial_activities_Always(rows) == AddAll(rows, initial, 1)

\* the Activity table after seed_initial_activities_if_needed() on table `rows`
seed_initial_activities_if_needed(rows) ==
    IF First(rows) = None THEN AddAll(rows, initial, 1) ELSE rows

-----------------------------------------------------------------------------
(* db.py: activities_as_dict *)

RECURSIVE JoinEmails(_, _)
\* select(User.email).join(Participation, Participation.user_id == User.id)
\*     .where(Participation.activity_id == activity.id)
\* one email per pair of a User row and a matching Participation row.  The
\* query has no ORDER BY; the list is given in order of User.id.
JoinEmails(us, activity_id) ==
    IF us = {} THEN << >>
    ELSE LET u == CHOOSE x \in us : \A y \in us : x.id <= y.id
             n == CopiesIn(Participation(activity_id, u.id), participations)
         IN  [i \in 1..n |-> u.email] \o JoinEmails(us \ {u}, activity_id)

ParticipantEmails(activity_id) == JoinEmails(users, activity_id)

\* out[activity.name] = {...}: a later row of the same name replaces an earlier
activities_as_dict ==
    [n \in {a.name : a \in activities} |->
        LET a == CHOOSE x \in activities :
                    /\ x.name = n
                    /\ \A y \in activities : y.name = n => y.id <= x.id
        IN  [description |-> a.description, schedule |-> a.schedule,
             max_participants |-> a.max_participants,
             participants |-> ParticipantEmails(a.id)]]

-----------------------------------------------------------------------------
(* app.py: the queries of the two handlers *)

ActivitiesNamed(activity_name) == {a \in activities : a.name = activity_name}

UsersWithEmail(email) == {u \in users : u.email = email}

\* select(Participation).where(activity_id == ..., user_id == ...).first()
ParticipationOf(activity_id, user_id) ==
    IF BagIn(Participation(activity_id, user_id), participations)
    THEN Participation(activity_id, user_id)
    ELSE None

\* select(Participation).where(activity_id == ...).all(): the rows, as a bag
ParticipantsOf(activity_id) ==
    LET rows == {p \in BagToSet(participations) : p.activity_id = activity_id}
    IN  [p \in rows |-> participations[p]]

\* mutant: the capacity test passes one participant too many
IsFull_OffByOne(activity, participants) ==
    /\ activity.max_participants # 0
    /\ BagCardinality(participants) > activity.max_participants

\* if activity.max_participants and len(participants) >= activity.max_participants
IsFull(activity, participants) ==
    /\ activity.max_participants # 0
    /\ BagCardinality(participants) >= activity.max_participants

HTTPException(status_code, detail) ==
    [status |-> status_code, body |-> [detail |-> detail]]

Ok(message) == [status |-> 200, body |-> [message |-> message]]

-----------------------------------------------------------------------------
(* app.py: signup_for_activity, run to completion *)

\* mutant: the already-signed-up check is left out
SignupParticipation_NoDuplicateCheck(activity, user, us, message) ==
    IF IsFull(activity, ParticipantsOf(activity.id))
    THEN [response |-> HTTPException(400, "Activity is full"),
          users |-> us, participations |-> participations]
    ELSE [response |-> Ok(message), users |-> us,
          participations |-> participations (+)
              SetToBag({Participation(activity.id, user.id)})]

\* mutant: the new user is committed only together with the participation
SignupParticipation_Rollback(activity, user, us, message) ==
    IF ParticipationOf(activity.id, user.id) # None
    THEN [response |-> HTTPException(400, "Student is already signed up"),
          users |-> users, participations |-> participations]
    ELSE IF IsFull(activity, ParticipantsOf(activity.id))
    THEN [response |-> HTTPException(400, "Activity is full"),
          users |-> users, participations |-> participations]
    ELSE [response |-> Ok(message), users |-> us,
          participations |-> participations (+)
              SetToBag({Participation(activity.id, user.id)})]

\* lines 59-79, for the activity and the user the handler holds, over table
\* `us` of users: the answer and the tables the request leaves behind
SignupParticipation(activity, user, us, message) ==
    IF ParticipationOf(activity.id, user.id) # None
    THEN [response |-> HTTPException(400, "Student is already signed up"),
          users |-> us, participations |-> participations]
    ELSE IF IsFull(activity, ParticipantsOf(activity.id))
    THEN [response |-> HTTPException(400, "Activity is full"),
          users |-> us, participations |-> participations]
    ELSE [response |-> Ok(message), users |-> us,
          participations |-> participations (+)
              SetToBag({Participation(activity.id, user.id)})]

\* lines 51-57: the user of the email, created and committed when missing,
\* then the rest of the handler
SignupUser(activity, found, email, message) ==
    IF found = None
    THEN LET user == User(NewId(users), email)
         IN  SignupParticipation(activity, user, users \cup {user}, message)
    ELSE SignupParticipation(activity, found, users, message)

\* mutant: the user is looked up and created before the activity is looked up
signup_outcome_UserBeforeActivity(activity_name, email) ==
    LET message == "Signed up " \o email \o " for " \o activity_name
        activity == First(ActivitiesNamed(activity_name))
        found == First(UsersWithEmail(email))
    IN  IF activity = None
        THEN [response |-> HTTPException(404, "Activity not found"),
              users |-> IF found = None THEN users \cup {User(NewId(users), email)}
                        ELSE users,
              participations |-> participations]
        ELSE SignupUser(activity, found, email, message)

\* the outcome of signup_for_activity(activity_name, email) when it runs
\* alone on the current tables
signup_outcome(activity_name, email) ==
    LET message == "Signed up " \o email \o " for " \o activity_name
        activity == First(ActivitiesNamed(activity_name))
    IN  IF activity = None
        THEN [response |-> HTTPException(404, "Activity not found"),
              users |-> users, participations |-> participations]
        ELSE SignupUser(activity, First(UsersWithEmail(email)), email, message)

(* app.py: unregister_from_activity, run to completion *)

\* mutant: a missing participation is not reported
UnregisterParticipation_NoCheck(activity, user, message) ==
    LET participation == ParticipationOf(activity.id, user.id)
    IN  IF participation = None
        THEN [response |-> Ok(message), participations |-> participations]
        ELSE [response |-> Ok(message),
              participations |-> participations (-) SetToBag({participation})]

\* mutant: the participation found is not deleted
UnregisterParticipation_NoDelete(activity, user, message) ==
    LET participation == ParticipationOf(activity.id, user.id)
    IN  IF participation = None
        THEN [response |-> HTTPException(400, "Student is not signed up for this activity"),
              participations |-> participations]
        ELSE [response |-> Ok(message), participations |-> participations]

\* lines 97-107, for the activity and the user the handler holds
UnregisterParticipation(activity, user, message) ==
    LET participation == ParticipationOf(activity.id, user.id)
    IN  IF participation = None
        THEN [response |-> HTTPException(400, "Student is not signed up for this activity"),
              participations |-> participations]
        ELSE [response |-> Ok(message),
              participations |-> participations (-) SetToBag({participation})]

\* the outcome of unregister_from_activity(activity_name, email) when it runs
\* alone on the current tables
unregister_outcome(activity_name, email) ==
    LET message == "Unregistered " \o email \o " from " \o activity_name
        activity == First(ActivitiesNamed(activity_name))
        user == First(UsersWithEmail(email))
    IN  IF activity = None
        THEN [response |-> HTTPException(404, "Activity not found"),
              participations |-> participations]
        ELSE IF user = None
        THEN [response |-> HTTPException(400, "Student is not signed up for this activity"),
              participations |-> participations]
        ELSE UnregisterParticipation(activity, user, message)

-----------------------------------------------------------------------------
(* State *)

NoResponse == [status |-> 0, body |-> [detail |-> ""]]

Completed(op, activity_name, email, response) ==
    [op |-> op, activity_name |-> activity_name, email |-> email,
     status |-> response.status, body |-> response.body]

IdleWorker ==
    [pc |-> "idle", op |-> "", activity_name |-> "", email |-> "",
     activity |-> None, user |-> None, response |-> NoResponse]

\* The database file outlives the process: at start-up it is either fresh (no
\* rows) or holds Activity rows written earlier, from any source.
OldStores ==
    {{}} \cup
    {{Activity(1, "Chess Club", "", "", c), Activity(2, "Math Club", "", "", MaxCapacity)} :
        c \in 0..MaxCapacity}

Init ==
    /\ activities \in OldStores
    /\ users = {}
    /\ participations = EmptyBag
    /\ started = FALSE
    /\ last = Completed("", "", "", NoResponse)
    /\ trip = 0
    /\ workers = [w \in Workers |-> IdleWorker]

\* the step of signup(A,e); unregister(A,e); signup(A,e) that request
\* (op, activity_name, email) with answer `status` is
NextTrip(op, activity_name, email, status) ==
    LET same == last.activity_name = activity_name /\ last.email = email
    IN  IF op = "signup" /\ trip = 2 /\ same /\ last.op = "unregister" THEN 3
        ELSE IF op = "signup" /\ status = 200 THEN 1
        ELSE IF op = "unregister" /\ trip \in {1, 3} /\ same /\ last.op = "signup"
                /\ last.status = 200 THEN 2
        ELSE 0

-----------------------------------------------------------------------------
(* Operations, one request at a time *)

\* app.py module start-up: db.init_db(); db.seed_initial_activities_if_needed().
\* A restart ends the requests the old process had in flight.
Startup ==
    /\ activities' = seed_initial_activities_if_needed(activities)
    /\ started' = TRUE
    /\ last' = Completed("startup", "", "", NoResponse)
    /\ trip' = 0
    /\ workers' = [w \in Workers |-> IdleWorker]
    /\ UNCHANGED <<users, participations>>

\* GET /activities
get_activities ==
    /\ started
    /\ last' = Completed("list", "", "", [status |-> 200, body |-> activities_as_dict])
    /\ trip' = 0
    /\ UNCHANGED <<activities, users, participations, started, workers>>

\* POST /activities/{activity_name}/signup?email=
signup_for_activity(activity_name, email) ==
    /\ started
    /\ LET o == signup_outcome(activity_name, email) IN
        /\ users' = o.users
        /\ participations' = o.participations
        /\ last' = Completed("signup", activity_name, email, o.response)
        /\ trip' = NextTrip("signup", activity_name, email, o.response.status)
    /\ UNCHANGED <<activities, started, workers>>

\* DELETE /activities/{activity_name}/unregister?email=
unregister_from_activity(activity_name, email) ==
    /\ started
    /\ LET o == unregister_outcome(activity_name, email) IN
        /\ participations' = o.participations
        /\ last' = Completed("unregister", activity_name, email, o.response)
        /\ trip' = NextTrip("unregister", activity_name, email, o.response.status)
    /\ UNCHANGED <<activities, users, started, workers>>

SignupRequest == \E n \in RequestNames, e \in Emails : signup_for_activity(n, e)

UnregisterRequest == \E n \in RequestNames, e \in Emails : unregister_from_activity(n, e)

Next ==
    \/ Startup
    \/ get_activities
    \/ SignupRequest
    \/ UnregisterRequest

Spec == Init /\ [][Next]_vars

-----------------------------------------------------------------------------
(* Operations on a pool of workers: signup_for_activity statement by statement *)

Free(w) == workers[w].pc \in {"idle", "done"}

At(w, pc) == workers[w].pc = pc

\* the handler of worker w returns or raises: its locals are dropped
Respond(w, response) ==
    workers' = [workers EXCEPT ![w].pc = "done", ![w].activity = None,
                               ![w].user = None, ![w].response = response]

Goto(w, pc) == workers' = [workers EXCEPT ![w].pc = pc]

\* app.py 43-49: a request arrives and the activity is looked up by name
FindActivity(w, activity_name, email) ==
    /\ started
    /\ Free(w)
    /\ LET activity == First(ActivitiesNamed(activity_name))
           request == [IdleWorker EXCEPT !.op = "signup",
                                         !.activity_name = activity_name,
                                         !.email = email]
       IN  workers' = [workers EXCEPT ![w] =
                IF activity = None
                THEN [request EXCEPT !.pc = "done",
                          !.response = HTTPException(404, "Activity not found")]
                ELSE [request EXCEPT !.pc = "find_user", !.activity = activity]]
    /\ UNCHANGED <<activities, users, participations, started, last, trip>>

\* app.py 52-53: the user is looked up by email
FindUser(w) ==
    /\ At(w, "find_user")
    /\ LET found == First(UsersWithEmail(workers[w].email)) IN
        workers' = [workers EXCEPT ![w].user = found,
                        ![w].pc = IF found = None THEN "create_user"
                                  ELSE "check_existing"]
    /\ UNCHANGED <<activities, users, participations, started, last, trip>>

\* app.py 54-57: session.add(user); session.commit(); session.refresh(user)
CreateUser(w) ==
    /\ At(w, "create_user")
    /\ LET user == User(NewId(users), workers[w].email)
       IN  /\ users' = users \cup {user}
           /\ workers' = [workers EXCEPT ![w].user = user, ![w].pc = "check_existing"]
    /\ UNCHANGED <<activities, participations, started, last, trip>>

\* app.py 59-67: already signed up?
CheckExisting(w) ==
    /\ At(w, "check_existing")
    /\ IF ParticipationOf(workers[w].activity.id, workers[w].user.id) # None
       THEN Respond(w, HTTPException(400, "Student is already signed up"))
       ELSE Goto(w, "check_capacity")
    /\ UNCHANGED <<activities, users, participations, started, last, trip>>

\* app.py 69-74: capacity
CheckCapacity(w) ==
    /\ At(w, "check_capacity")
    /\ IF IsFull(workers[w].activity, ParticipantsOf(workers[w].activity.id))
       THEN Respond(w, HTTPException(400, "Activity is full"))
       ELSE Goto(w, "add_participation")
    /\ UNCHANGED <<activities, users, participations, started, last, trip>>

\* mutant: the table has a unique constraint on (activity_id, user_id)
AddParticipation_Unique(w) ==
    /\ At(w, "add_participation")
    /\ LET p == Participation(workers[w].activity.id, workers[w].user.id)
       IN  IF BagIn(p, participations)
           THEN /\ Respond(w, HTTPException(400, "Student is already signed up"))
                /\ UNCHANGED participations
           ELSE /\ participations' = participations (+) SetToBag({p})
                /\ Respond(w, Ok("Signed up " \o workers[w].email \o " for "
                                    \o workers[w].activity_name))
    /\ UNCHANGED <<activities, users, started, last, trip>>

\* mutant: the capacity is tested again in the transaction of the insert
AddParticipation_Recheck(w) ==
    /\ At(w, "add_participation")
    /\ IF IsFull(workers[w].activity, ParticipantsOf(workers[w].activity.id))
       THEN /\ Respond(w, HTTPException(400, "Activity is full"))
            /\ UNCHANGED participations
       ELSE /\ participations' = participations (+)
                   SetToBag({Participation(workers[w].activity.id, workers[w].user.id)})
            /\ Respond(w, Ok("Signed up " \o workers[w].email \o " for "
                                \o workers[w].activity_name))
    /\ UNCHANGED <<activities, users, started, last, trip>>

\* app.py 76-80: session.add(p); session.commit(); return the message
AddParticipation(w) ==
    /\ At(w, "add_participation")
    /\ participations' = participations (+)
           SetToBag({Participation(workers[w].activity.id, workers[w].user.id)})
    /\ Respond(w, Ok("Signed up " \o workers[w].email \o " for "
                        \o workers[w].activity_name))
    /\ UNCHANGED <<activities, users, started, last, trip>>

\* app.py 84-108: unregister_from_activity on worker w, between two statements
\* of the other workers
UnregisterAlone(w, activity_name, email) ==
    /\ started
    /\ Free(w)
    /\ LET o == unregister_outcome(activity_name, email) IN
        /\ participations' = o.participations
        /\ workers' = [workers EXCEPT ![w] =
                [IdleWorker EXCEPT !.pc = "done", !.op = "unregister",
                                   !.activity_name = activity_name,
                                   !.email = email, !.response = o.response]]
    /\ UNCHANGED <<activities, users, started, last, trip>>

NextConc ==
    \/ Startup
    \/ \E w \in Workers, n \in RaceNames, e \in RaceEmails : FindActivity(w, n, e)
    \/ \E w \in Workers : FindUser(w)
    \/ \E w \in Workers : CreateUser(w)
    \/ \E w \in Workers : CheckExisting(w)
    \/ \E w \in Workers : CheckCapacity(w)
    \/ \E w \in Workers : AddParticipation(w)
    \/ \E w \in Workers, n \in RaceNames, e \in RaceEmails : UnregisterAlone(w, n, e)

SpecConc == Init /\ [][NextConc]_vars

-----------------------------------------------------------------------------
(* What the claims speak of *)

\* how many times the listing of activity a shows email e
Listed(a, e) ==
    LET ps == activities_as_dict[a.name].participants
    IN  Cardinality({i \in DOMAIN ps : ps[i] = e})

SignedUp(a, e) == Listed(a, e) > 0

\* number of Participation rows of activity a
Count(a) == BagCardinality(ParticipantsOf(a.id))

Failed(r, status, detail) == r.status = status /\ r.body = [detail |-> detail]

Tables == <<activities, users, participations>>

SeedNames ==
    {"Chess Club", "Programming Class", "Gym Class", "Soccer Team", "Basketball Team",
     "Art Club", "Drama Club", "Math Club", "Debate Team"}

-----------------------------------------------------------------------------
\* C1: for an activity name no Activity row has, signup and unregister both
\* answer 404 "Activity not found" and leave the Activity, User and
\* Participation tables as they were (signup creates no User).
C1_UnknownActivityNotFound ==
    [][\A n \in RequestNames, e \in Emails :
          (ActivitiesNamed(n) = {} /\ (signup_for_activity(n, e) \/ unregister_from_activity(n, e)))
          => /\ Failed(last', 404, "Activity not found")
             /\ UNCHANGED Tables]_vars

C1_Witness ==
    /\ last.op = "signup"
    /\ last.status = 404
    /\ ActivitiesNamed(last.activity_name) = {}
    /\ UsersWithEmail(last.email) = {}
    /\ users # {}

\* C2: one request at a time, signup(A, e) for an existing activity that is
\* not full and an email not signed up for it answers 200 and adds exactly one
\* Participation, for (A, e); the same signup again, right after, answers 400
\* "Student is already signed up" and adds none; no (activity, user) pair ever
\* has more than one Participation.
C2_SignupOnce ==
    /\ [](\A p \in BagToSet(participations) : CopiesIn(p, participations) = 1)
    /\ [][\A n \in RequestNames, e \in Emails : \A a \in ActivitiesNamed(n) :
            /\ (/\ ~SignedUp(a, e)
                /\ (a.max_participants = 0 \/ Count(a) < a.max_participants)
                /\ signup_for_activity(n, e))
               => /\ last'.status = 200
                  /\ \E u \in users' :
                        /\ u.email = e
                        /\ participations' = participations (+)
                               SetToBag({Participation(a.id, u.id)})
            /\ (/\ last.op = "signup" /\ last.activity_name = n /\ last.email = e
                /\ last.status = 200
                /\ signup_for_activity(n, e))
               => /\ Failed(last', 400, "Student is already signed up")
                  /\ participations' = participations]_vars

C2_Witness ==
    /\ last.op = "signup"
    /\ Failed(last, 400, "Student is already signed up")
    /\ \E a \in ActivitiesNamed(last.activity_name) : Listed(a, last.email) = 1

\* C3: one request at a time, for an activity with non-zero max_participants
\* and an email not signed up for it, signup answers 400 "Activity is full"
\* and adds no Participation when the count equals max_participants, and
\* answers 200 when the count equals max_participants - 1; the count never
\* exceeds max_participants.
C3_Capacity ==
    /\ [](\A a \in activities :
            a.max_participants # 0 => Count(a) <= a.max_participants)
    /\ [][\A n \in RequestNames, e \in Emails : \A a \in ActivitiesNamed(n) :
            (a.max_participants # 0 /\ ~SignedUp(a, e) /\ signup_for_activity(n, e))
            => /\ Count(a) = a.max_participants
                  => /\ Failed(last', 400, "Activity is full")
                     /\ participations' = participations
               /\ Count(a) = a.max_participants - 1
                  => /\ last'.status = 200
                     /\ Count(a)' = a.max_participants]_vars

C3_Witness ==
    /\ last.op = "signup"
    /\ Failed(last, 400, "Activity is full")
    /\ \E a \in ActivitiesNamed(last.activity_name) :
        /\ Count(a) = a.max_participants
        /\ ~SignedUp(a, last.email)

\* C4: for an existing activity and an email with no Participation for it
\* (no User of that email, or a User not signed up for the activity),
\* unregister answers 400 "Student is not signed up for this activity" and
\* leaves the three tables as they were.
C4_UnregisterNotSignedUp ==
    [][\A n \in RequestNames, e \in Emails : \A a \in ActivitiesNamed(n) :
          (~SignedUp(a, e) /\ unregister_from_activity(n, e))
          => /\ Failed(last', 400, "Student is not signed up for this activity")
             /\ UNCHANGED Tables]_vars

C4_Witness ==
    /\ last.op = "unregister"
    /\ Failed(last, 400, "Student is not signed up for this activity")
    /\ UsersWithEmail(last.email) # {}
    /\ \E a \in ActivitiesNamed(last.activity_name) : ~SignedUp(a, last.email)

\* C5: one request at a time, signup(A, e); unregister(A, e); signup(A, e)
\* from a state where A exists, is not full and e is not signed up answers
\* 200 three times; after the unregister the listing of A does not show e,
\* and the unregister leaves the Participations of every other (activity,
\* user) pair as they were.
C5_RoundTrip ==
    /\ [](trip \in {1, 2, 3} => last.status = 200)
    /\ [](trip = 2 =>
            \A a \in ActivitiesNamed(last.activity_name) : Listed(a, last.email) = 0)
    /\ [][trip' = 2 /\ trip # 2 =>
            \A a \in activities, u \in users :
                (a.name # last'.activity_name \/ u.email # last'.email)
                => CopiesIn(Participation(a.id, u.id), participations')
                    = CopiesIn(Participation(a.id, u.id), participations)]_vars

C5_Witness ==
    /\ trip = 3
    /\ last.status = 200
    /\ \E a \in ActivitiesNamed(last.activity_name) : Listed(a, last.email) = 1
    /\ BagCardinality(participations) > 1

\* C6: seeding at start-up on a store without Activity rows inserts exactly
\* the 9 seed activities, and the listing then shows exactly those 9 names,
\* each with no participants; on a store with at least one Activity row it
\* inserts nothing and changes no row.
C6_SeedIdempotent ==
    [][Startup =>
         IF activities = {}
         THEN /\ Cardinality(activities') = 9
              /\ DOMAIN activities_as_dict' = SeedNames
              /\ \A n \in SeedNames : activities_as_dict'[n].participants = << >>
         ELSE UNCHANGED Tables]_vars

C6_Witness ==
    /\ last.op = "startup"
    /\ Cardinality(activities) = 9
    /\ DOMAIN activities_as_dict = SeedNames
    /\ participations # EmptyBag

\* C9: signup(A, e) for an existing full activity and an email without a User
\* row answers 400 "Activity is full" and adds no Participation, yet a new
\* User row with email e is stored and stays in the store.
C9_UserKeptOnFailure ==
    [][/\ users \subseteq users'
       /\ \A n \in RequestNames, e \in Emails : \A a \in ActivitiesNamed(n) :
            (/\ UsersWithEmail(e) = {}
             /\ a.max_participants # 0
             /\ Count(a) >= a.max_participants
             /\ signup_for_activity(n, e))
            => /\ Failed(last', 400, "Activity is full")
               /\ participations' = participations
               /\ \E u \in users' \ users :
                    u.email = e /\ users' = users \cup {u}]_vars

C9_Witness ==
    /\ last.op = "signup"
    /\ Failed(last, 400, "Activity is full")
    /\ UsersWithEmail(last.email) # {}
    /\ \A u \in UsersWithEmail(last.email), p \in BagToSet(participations) :
        p.user_id # u.id

-----------------------------------------------------------------------------
(* Claims about interleaved requests, under SpecConc *)

\* C7: two signup requests for the same activity and email can both pass the
\* already-signed-up check before either commits: nothing stops the insert of
\* the one that commits second, which answers 200 and leaves two Participation
\* rows for the same (activity, user), the email being listed twice.
C7_DuplicateCommitted ==
    [][\A w \in Workers :
          LET p == Participation(workers[w].activity.id, workers[w].user.id)
          IN  (BagIn(p, participations) /\ AddParticipation(w))
              => /\ workers'[w].response.status = 200
                 /\ CopiesIn(p, participations') = CopiesIn(p, participations) + 1]_vars

C7_Witness ==
    \E a \in activities, u \in users :
        /\ CopiesIn(Participation(a.id, u.id), participations) = 2
        /\ UsersWithEmail(u.email) = {u}
        /\ Listed(a, u.email) = 2
        /\ \A w \in Workers :
            /\ workers[w].pc = "done" /\ workers[w].op = "signup"
            /\ workers[w].activity_name = a.name /\ workers[w].email = u.email
            /\ workers[w].response.status = 200

\* C8: two signup requests for an activity with non-zero max_participants can
\* both read the count before either commits: the insert of the one that
\* commits second is not held back by the activity being full by then, it
\* answers 200 and the count exceeds max_participants.
C8_OverCapacityCommitted ==
    [][\A w \in Workers :
          \A a \in activities :
              (/\ At(w, "add_participation")
               /\ a = workers[w].activity
               /\ a.max_participants # 0
               /\ Count(a) >= a.max_participants
               /\ AddParticipation(w))
              => /\ workers'[w].response.status = 200
                 /\ Count(a)' = Count(a) + 1
                 /\ Count(a)' > a.max_participants]_vars

C8_Witness ==
    \E a \in activities :
        /\ a.max_participants # 0
        /\ Count(a) = a.max_participants + 1
        /\ \A w \in Workers :
            /\ workers[w].pc = "done" /\ workers[w].op = "signup"
            /\ workers[w].activity_name = a.name
            /\ workers[w].response.status = 200
        /\ \E w1, w2 \in Workers : workers[w1].email # workers[w2].email

\* C10: in every state interleaved signup requests reach, an email that the
\* listing shows among the participants of an activity can be unregistered
\* from it: unregister, run alone, answers 200.
C10_ListedCanUnregister ==
    \A a \in activities, e \in RaceEmails :
        SignedUp(a, e) =>
            unregister_outcome(a.name, e).response.status = 200

====
